---------------------------- MODULE Spec2Model ----------------------------
(***************************************************************************)
(* A model of advanced_cybernetic_hud.py (class CyberneticARHUD): the      *)
(* gesture classifier, the telemetry tick, the radar contact list kept by  *)
(* draw_radar_display, the progress-bar primitive and the run loop.        *)
(*                                                                         *)
(* Landmark coordinates are normalised floats in the program.  The model   *)
(* takes them on the grid k/64: such values, their differences, squares    *)
(* and sums of squares are exact in binary floating point, so the integer  *)
(* arithmetic below computes what the program computes.                    *)
(***************************************************************************)
EXTENDS Integers, Sequences, FiniteSets, TLC

VARIABLES
    pc,                 \* position of run(): the statement about to execute
    ret,                \* what cap.read() last returned (line 609)
    key,                \* what cv2.waitKey last returned (line 645)
    cap_opened,         \* the capture is held (line 572 .. 658)
    windows_open,       \* the display window exists (line 643 .. 659)
    frame_count,        \* self.frame_count
    elapsed,            \* time.time() - self.system_boot_time at the last tick, seconds
    battery_level,      \* self.system_status['battery_level']
    radar_blips,        \* self.radar_blips
    scan_angle,         \* self.scan_angle
    pulse_steps,        \* number of 0.15 rad increments applied to self.pulse_animation
    current_hud_mode,   \* self.current_hud_mode
    results,            \* results.multi_hand_landmarks of the last process_hands
    gesture,            \* the local gesture of run() (line 628)
    landmarks,          \* argument of a direct recognize_gesture call
    rg_ret,             \* what that call returned (or the exception it raised)
    bar_args,           \* arguments of a draw_progress_bar call
    bar_drawn           \* the rectangles that call drew

vars == << pc, ret, key, cap_opened, windows_open, frame_count, elapsed,
           battery_level, radar_blips, scan_angle, pulse_steps,
           current_hud_mode, results, gesture, landmarks, rg_ret,
           bar_args, bar_drawn >>

Min(a, b) == IF a < b THEN a ELSE b

Max(a, b) == IF a > b THEN a ELSE b

Abs(a) == IF a < 0 THEN -a ELSE a

(***************************************************************************)
(* Gesture classifier: recognize_gesture, lines 140-199.                   *)
(***************************************************************************)

\* Landmark coordinates are multiples of 1/Grid.
Grid == 8 * 8

\* A landmark that is absent from the list (None in the program).
NoPoint == [none |-> TRUE]

IsPoint(p) == "y" \in DOMAIN p

\* landmarks[i] with the program's 0-based index.
At(l, i) == l[i + 1]

\* Line 151-152: tip.y < pip.y.
is_finger_extended(tip, pip) == tip.y < pip.y

\* Largest r with r * r <= n.
ISqrt(n) == CHOOSE r \in 0..n : r * r <= n /\ (r + 1) * (r + 1) > n

\* math.sqrt((x1-x2)**2 + (y1-y2)**2), lines 197-199.  The result is the
\* distance in units of 1/(Grid * DistScale), rounded down.
DistScale == 10 * 10

calculate_distance_l1(point1, point2) ==
    (Abs(point1.x - point2.x) + Abs(point1.y - point2.y)) * DistScale

calculate_distance(point1, point2) ==
    ISqrt(((point1.x - point2.x) * (point1.x - point2.x)
           + (point1.y - point2.y) * (point1.y - point2.y))
          * DistScale * DistScale)

\* The threshold 0.05 of line 184, as OkNum / OkDen.
OkNum == 5

OkDen == 100

\* calculate_distance(...) < 0.05 for a value d in units of 1/(Grid * DistScale).
BelowOkThreshold(d) == d * OkDen < OkNum * Grid * DistScale

\* One conjunct of a rule's condition.  The program evaluates a condition left
\* to right and stops at the first conjunct that decides it ("and", "not any",
\* "all" all short-circuit), so a rule is the sequence of its conjuncts.
Ext(tip, pip) == [kind |-> "ext", tip |-> tip, pip |-> pip, want |-> TRUE]

NotExt(tip, pip) == [kind |-> "ext", tip |-> tip, pip |-> pip, want |-> FALSE]

Near(a, b) == [kind |-> "near", tip |-> a, pip |-> b, want |-> TRUE]

\* The elif chain of lines 155-193, in the program's order.
RulesOkNeedsIndex ==
    << [label |-> "peace",
        conds |-> << Ext(8, 6), Ext(12, 10), NotExt(16, 14), NotExt(20, 18) >>],
       [label |-> "thumbs_up",
        conds |-> << Ext(4, 3), NotExt(8, 6), NotExt(12, 10), NotExt(16, 14),
                     NotExt(20, 18) >>],
       [label |-> "thumbs_down",
        conds |-> << NotExt(4, 3), NotExt(8, 6), NotExt(12, 10), NotExt(16, 14),
                     NotExt(20, 18) >>],
       [label |-> "fist",
        conds |-> << NotExt(8, 6), NotExt(12, 10), NotExt(16, 14), NotExt(20, 18) >>],
       [label |-> "open_palm",
        conds |-> << Ext(8, 6), Ext(12, 10), Ext(16, 14), Ext(20, 18) >>],
       [label |-> "pointing",
        conds |-> << Ext(8, 6), NotExt(12, 10), NotExt(16, 14), NotExt(20, 18) >>],
       [label |-> "ok",
        conds |-> << Near(4, 8), Ext(8, 6), Ext(12, 10), Ext(16, 14), Ext(20, 18) >>],
       [label |-> "rock",
        conds |-> << Ext(8, 6), Ext(20, 18), NotExt(12, 10), NotExt(16, 14) >>] >>

RulesOkFirst ==
    << [label |-> "peace",
        conds |-> << Ext(8, 6), Ext(12, 10), NotExt(16, 14), NotExt(20, 18) >>],
       [label |-> "thumbs_up",
        conds |-> << Ext(4, 3), NotExt(8, 6), NotExt(12, 10), NotExt(16, 14),
                     NotExt(20, 18) >>],
       [label |-> "thumbs_down",
        conds |-> << NotExt(4, 3), NotExt(8, 6), NotExt(12, 10), NotExt(16, 14),
                     NotExt(20, 18) >>],
       [label |-> "fist",
        conds |-> << NotExt(8, 6), NotExt(12, 10), NotExt(16, 14), NotExt(20, 18) >>],
       [label |-> "ok",
        conds |-> << Near(4, 8), Ext(12, 10), Ext(16, 14), Ext(20, 18) >>],
       [label |-> "open_palm",
        conds |-> << Ext(8, 6), Ext(12, 10), Ext(16, 14), Ext(20, 18) >>],
       [label |-> "pointing",
        conds |-> << Ext(8, 6), NotExt(12, 10), NotExt(16, 14), NotExt(20, 18) >>],
       [label |-> "rock",
        conds |-> << Ext(8, 6), Ext(20, 18), NotExt(12, 10), NotExt(16, 14) >>] >>

Rules ==
    << [label |-> "peace",
        conds |-> << Ext(8, 6), Ext(12, 10), NotExt(16, 14), NotExt(20, 18) >>],
       [label |-> "thumbs_up",
        conds |-> << Ext(4, 3), NotExt(8, 6), NotExt(12, 10), NotExt(16, 14),
                     NotExt(20, 18) >>],
       [label |-> "thumbs_down",
        conds |-> << NotExt(4, 3), NotExt(8, 6), NotExt(12, 10), NotExt(16, 14),
                     NotExt(20, 18) >>],
       [label |-> "fist",
        conds |-> << NotExt(8, 6), NotExt(12, 10), NotExt(16, 14), NotExt(20, 18) >>],
       [label |-> "open_palm",
        conds |-> << Ext(8, 6), Ext(12, 10), Ext(16, 14), Ext(20, 18) >>],
       [label |-> "pointing",
        conds |-> << Ext(8, 6), NotExt(12, 10), NotExt(16, 14), NotExt(20, 18) >>],
       [label |-> "ok",
        conds |-> << Near(4, 8), Ext(12, 10), Ext(16, 14), Ext(20, 18) >>],
       [label |-> "rock",
        conds |-> << Ext(8, 6), Ext(20, 18), NotExt(12, 10), NotExt(16, 14) >>] >>

\* What evaluating one conjunct yields: "T", "F", or the exception raised by
\* reading .x / .y of an absent point.
EvalCond(l, c) ==
    IF ~IsPoint(At(l, c.tip)) \/ ~IsPoint(At(l, c.pip))
    THEN "AttributeError"
    ELSE IF c.kind = "near"
         THEN IF BelowOkThreshold(calculate_distance(At(l, c.tip), At(l, c.pip)))
              THEN "T" ELSE "F"
         ELSE IF is_finger_extended(At(l, c.tip), At(l, c.pip)) = c.want
              THEN "T" ELSE "F"

\* A rule's condition from conjunct i on: "F" at the first false conjunct,
\* the exception at the first conjunct that raises, "T" when none is left.
RECURSIVE EvalConds(_, _, _)
EvalConds(l, conds, i) ==
    IF i > Len(conds) THEN "T"
    ELSE LET v == EvalCond(l, conds[i])
         IN  IF v = "T" THEN EvalConds(l, conds, i + 1) ELSE v

\* The chain from rule r on; line 195 when no rule is left.
RECURSIVE EvalRules(_, _)
EvalRules(l, r) ==
    IF r > Len(Rules) THEN "unknown"
    ELSE LET v == EvalConds(l, Rules[r].conds, 1)
         IN  IF v = "T" THEN Rules[r].label
             ELSE IF v = "F" THEN EvalRules(l, r + 1)
             ELSE v

\* The highest index lines 145-149 read.
LastTipIndex == 20

\* recognize_gesture(landmarks): a label, or the name of the exception raised.
recognize_gesture(l) ==
    IF Len(l) = 0 THEN "unknown"                      \* line 142-143
    ELSE IF Len(l) <= LastTipIndex THEN "IndexError"  \* lines 145-149
    ELSE EvalRules(l, 1)


\* process_hands, lines 548-568: "no_hand", then the classification of each
\* detected hand in turn assigned to the same local; an exception raised by
\* the classifier leaves the loop at once.
Exceptions == {"IndexError", "AttributeError", "ValueError"}

RECURSIVE ProcessFrom(_, _, _)
ProcessFrom(hands, i, g) ==
    IF i > Len(hands) THEN g
    ELSE LET v == recognize_gesture(hands[i])
         IN  IF v \in Exceptions THEN v ELSE ProcessFrom(hands, i + 1, v)

process_hands(hands) == ProcessFrom(hands, 1, "no_hand")

(***************************************************************************)
(* Telemetry: update_system_metrics, lines 105-138.  Only the battery is   *)
(* modelled; cpu, memory, network and threat are read by no other state.   *)
(***************************************************************************)

BatteryFull == 100

BatteryFloor == 10

BatteryDrainPeriod == 10

\* Python's int(n / d) for d > 0: truncation towards zero.
PyInt(n, d) == IF n >= 0 THEN n \div d ELSE -((-n) \div d)

BatteryLevelUnfloored(time_since_boot) ==
    BatteryFull - PyInt(time_since_boot, BatteryDrainPeriod)

\* Line 118.
BatteryLevel(time_since_boot) ==
    Max(BatteryFloor, BatteryFull - PyInt(time_since_boot, BatteryDrainPeriod))

(***************************************************************************)
(* Radar contacts: draw_radar_display, lines 246-308.                      *)
(***************************************************************************)

RadarSize == 220

MaxBlips == 8

ScanStep == 3

FullCircle == 360

AngleMax == 360

DistMin == 20

DistMargin == 30

LifeMin == 50

LifeMax == 200

BlipTypes == {"friend", "neutral", "hostile"}

\* random.randint(20, radar_size // 2 - 30), line 276: both ends included.
DistMax == RadarSize \div 2 - DistMargin

\* blips with the element at position p taken out.
RemoveAt(blips, p) == SubSeq(blips, 1, p - 1) \o SubSeq(blips, p + 1, Len(blips))

\* The decay with the loop walking the list itself instead of a copy of it:
\* i is then a position of cur, and a removal moves the next blip past it.
RECURSIVE DecayFromNoCopy(_, _, _)
DecayFromNoCopy(heap, cur, i) ==
    IF i > Len(cur) THEN [blips |-> [k \in 1..Len(cur) |-> heap[cur[k]]], error |-> "none"]
    ELSE LET h2 == [heap EXCEPT ![cur[i]].lifetime = @ - 1]
         IN  IF h2[cur[i]].lifetime <= 0
             THEN LET hits == {p \in 1..Len(cur) : h2[cur[p]] = h2[cur[i]]}
                      p == CHOOSE q \in hits : \A r \in hits : q <= r
                  IN  DecayFromNoCopy(h2, RemoveAt(cur, p), i + 1)
             ELSE DecayFromNoCopy(h2, cur, i + 1)

\* Lines 284-299.  The loop walks a copy of the list (heap: the blip objects in
\* the copy's order, each mutated in place) while cur, the list itself, holds
\* the objects still in it.  list.remove(blip) takes out the first element of
\* cur that is equal to blip, and raises ValueError when there is none.
RECURSIVE DecayFrom(_, _, _)
DecayFrom(heap, cur, i) ==
    IF i > Len(heap) THEN [blips |-> [k \in 1..Len(cur) |-> heap[cur[k]]], error |-> "none"]
    ELSE LET h2 == [heap EXCEPT ![i].lifetime = @ - 1]
         IN  IF h2[i].lifetime <= 0
             THEN LET hits == {p \in 1..Len(cur) : h2[cur[p]] = h2[i]}
                  IN  IF hits = {}
                      THEN [blips |-> [k \in 1..Len(cur) |-> h2[cur[k]]],
                            error |-> "ValueError"]
                      ELSE LET p == CHOOSE q \in hits : \A r \in hits : q <= r
                           IN  DecayFrom(h2, RemoveAt(cur, p), i + 1)
             ELSE DecayFrom(h2, cur, i + 1)

\* Lines 274-281: the spawn, given the outcome of random.random() < 0.1 and
\* the blip the random draws make.
SpawnBlipOffByOne(blips, roll, new) ==
    IF roll /\ Len(blips) <= MaxBlips THEN Append(blips, new) ELSE blips

SpawnBlip(blips, roll, new) ==
    IF roll /\ Len(blips) < MaxBlips THEN Append(blips, new) ELSE blips

\* Lines 273-299: the spawn and then the decay of every blip in the list.
UpdateBlips(blips, roll, new) ==
    LET spawned == SpawnBlip(blips, roll, new)
    IN  DecayFrom(spawned, [k \in 1..Len(spawned) |-> k], 1)

(***************************************************************************)
(* HUD modes, lines 39-41 and 648-651.                                     *)
(***************************************************************************)

hud_modes == << "COMBAT", "STEALTH", "NAVIGATION", "SYSTEM" >>

\* self.hud_modes.index(m), 0-based.
ModeIndex(m) == (CHOOSE i \in 1..Len(hud_modes) : hud_modes[i] = m) - 1

CycleModeNoWrap(m) == hud_modes[Min(ModeIndex(m) + 1, Len(hud_modes) - 1) + 1]

\* Lines 650-651.
CycleMode(m) == hud_modes[((ModeIndex(m) + 1) % Len(hud_modes)) + 1]

(***************************************************************************)
(* draw_progress_bar, lines 536-541.  progress is the float num / ProgressDen; *)
(* with ProgressDen a power of two the product width * progress is exact.   *)
(***************************************************************************)

ProgressDen == 2 * 2

\* The three cv2.rectangle calls: the track, the fill, the border, each by
\* the x of its two corners (the y extent is the same for all three).
\* No rectangle drawn yet.
NotDrawn == [track |-> << >>, fill |-> << >>, border |-> << >>]

draw_progress_bar(x, width, num) ==
    [track |-> << x, x + width >>,
     fill  |-> << x, x + PyInt(width * num, ProgressDen) >>,
     border |-> << x, x + width >>]


(***************************************************************************)
(* Bounded inputs.                                                         *)
(***************************************************************************)

\* Frames the capture delivers before the stream ends.
MaxFrames == 3

\* Frames of the runs with no hand and no blip: enough to cycle the HUD mode
\* all the way round.
MaxQuietFrames == 5

\* Frames of the radar runs: enough to fill the contact list and go on.
MaxRadarFrames == 10

\* A run in progress: the frames it has shown, and the frames it goes on for.
MidRunFrames == 56

MaxMidRunFrames == 4

\* Frames of the battery runs.
MaxBatteryFrames == 4

\* Finger tips lie TipSpread grid steps above, at, or below their joints.
TipSpread == 2

\* The index tip lies 0..MaxDX grid steps beside the thumb tip.
MaxDX == 3

\* progress ranges over -MaxBarNum/ProgressDen .. MaxBarNum/ProgressDen.
MaxBarNum == 8

MidY == Grid \div 2

TipYs == {MidY - TipSpread, MidY, MidY + TipSpread}

\* A hand of 21 landmarks: every joint at (MidY, MidY), the five tips at the
\* given heights, the index tip dx beside the thumb tip.
Hand(ty, iy, my, ry, py, dx) ==
    [i \in 1..(LastTipIndex + 1) |->
        CASE i - 1 = 4  -> [x |-> MidY, y |-> ty]
          [] i - 1 = 8  -> [x |-> MidY + dx, y |-> iy]
          [] i - 1 = 12 -> [x |-> MidY, y |-> my]
          [] i - 1 = 16 -> [x |-> MidY, y |-> ry]
          [] i - 1 = 20 -> [x |-> MidY, y |-> py]
          [] OTHER      -> [x |-> MidY, y |-> MidY]]

WellFormedHands ==
    {Hand(ty, iy, my, ry, py, dx) :
        ty \in TipYs, iy \in TipYs, my \in TipYs, ry \in TipYs, py \in TipYs,
        dx \in 0..MaxDX}

Up == MidY - TipSpread

Down == MidY + TipSpread

PeaceHand == Hand(Down, Up, Up, Down, Down, MaxDX)

PalmHand == Hand(Up, Up, Up, Up, Up, MaxDX)

FistHand == Hand(MidY, Down, Down, Down, Down, MaxDX)

PinchHand == Hand(Down, Down, Up, Up, Up, 0)

BaseHands == {PeaceHand, PalmHand, FistHand, PinchHand}

\* Lists that are not 21 present landmarks: the empty list, the proper
\* prefixes of a hand, and hands with one point absent.
MalformedHands ==
    {SubSeq(h, 1, n) : h \in BaseHands, n \in 0..LastTipIndex}
    \cup {[h EXCEPT ![i] = NoPoint] : h \in BaseHands, i \in 1..(LastTipIndex + 1)}

GestureInputs == WellFormedHands \cup MalformedHands

\* What the landmark source hands to process_hands: at most two hands
\* (max_num_hands = 2, line 63), each of 21 landmarks.
SeenHands == {PeaceHand, PalmHand}

DetectedHands ==
    {<< >>} \cup {<< h >> : h \in SeenHands}
            \cup {<< g, h >> : g \in SeenHands, h \in SeenHands}

\* The blips the random draws of lines 275-280 can make: the ends of each
\* randint range, and a value inside it.
SpawnSamples ==
    { [angle |-> 0, distance |-> DistMin, type |-> "friend", lifetime |-> LifeMin],
      [angle |-> AngleMax \div 2, distance |-> DistMin + 1, type |-> "neutral",
       lifetime |-> LifeMin + 1],
      [angle |-> AngleMax, distance |-> DistMax, type |-> "hostile",
       lifetime |-> LifeMax] }

OneSpawn ==
    { [angle |-> AngleMax, distance |-> DistMax, type |-> "hostile",
       lifetime |-> LifeMin] }

Keys == {"q", "m", "r", "other"}

BarInputs ==
    [x : {0, 10, 120}, width : {100, 150, 200}, num : (-MaxBarNum)..MaxBarNum]

(***************************************************************************)
(* The run loop, lines 570-660.                                            *)
(***************************************************************************)

\* self.hud_elements in insertion order, lines 74-83.
\* The widgets with the radar drawn after the vital signs.
hud_elements_radar_third ==
    << "status_panel", "vital_signs", "radar_display", "navigation",
       "weapon_system", "communication", "threat_assessment",
       "mission_objectives" >>

hud_elements ==
    << "status_panel", "radar_display", "vital_signs", "navigation",
       "weapon_system", "communication", "threat_assessment",
       "mission_objectives" >>

WidgetIndex(name) == CHOOSE i \in 1..Len(hud_elements) : hud_elements[i] = name

IsWidget(p) == \E i \in 1..Len(hud_elements) : hud_elements[i] = p

AfterWidget(name) ==
    IF WidgetIndex(name) = Len(hud_elements) THEN "present"
    ELSE hud_elements[WidgetIndex(name) + 1]

callVars == << landmarks, rg_ret, bar_args, bar_drawn >>

\* __init__ (lines 14-51) and the head of run (lines 572-606).
InitHud ==
    /\ pc = "read"
    /\ ret = "unset"
    /\ key = "unset"
    /\ cap_opened = TRUE
    /\ windows_open = FALSE
    /\ frame_count = 0
    /\ elapsed = 0
    /\ battery_level = BatteryFull
    /\ radar_blips = << >>
    /\ scan_angle = 0
    /\ pulse_steps = 0
    /\ current_hud_mode = "COMBAT"
    /\ results = << >>
    /\ gesture = "unset"

\* The blip that was appended s-th, in tick s of a run with no reset, and has
\* r ticks left after tick MidRunFrames: it was drawn with lifetime
\* r + 1 + MidRunFrames - s, which lies in LifeMin..LifeMax.
MidBlip(type, r) ==
    [angle |-> AngleMax, distance |-> DistMax, type |-> type, lifetime |-> r]

\* A full list, two pairs of contacts with identical fields among them.
MidRunBlips ==
    << MidBlip("hostile", 1), MidBlip("hostile", 1), MidBlip("friend", 3),
       MidBlip("hostile", 2), MidBlip("hostile", 2), MidBlip("neutral", LifeMin),
       MidBlip("friend", 1), MidBlip("hostile", 3) >>

\* The loop head (line 608) after MidRunFrames frames with the clock still
\* within its first second, no hand seen and no key of the three pressed.
InitMidRun ==
    /\ pc = "read"
    /\ ret = "True"
    /\ key = "other"
    /\ cap_opened = TRUE
    /\ windows_open = TRUE
    /\ frame_count = MidRunFrames
    /\ elapsed = 0
    /\ battery_level = BatteryFull
    /\ radar_blips = MidRunBlips
    /\ scan_angle = (MidRunFrames * ScanStep) % FullCircle
    /\ pulse_steps = MidRunFrames
    /\ current_hud_mode = "COMBAT"
    /\ results = << >>
    /\ gesture = "no_hand"

NoCall ==
    /\ landmarks = << >>
    /\ rg_ret = "unset"
    /\ bar_args = [x |-> 0, width |-> 0, num |-> 0]
    /\ bar_drawn = NotDrawn

\* Lines 609-622: cap.read(); the loop ends on a failed read, else the frame
\* is counted.  The stream can deliver a frame while frame_count is in live.
ReadFrameRetry(live) ==
    /\ pc = "read"
    /\ \E r \in (IF frame_count \in live THEN {"True", "False"} ELSE {"False"}) :
          /\ ret' = r
          /\ IF r = "True"
             THEN frame_count' = frame_count + 1 /\ pc' = "update"
             ELSE frame_count' = frame_count /\ pc' = "read"
    /\ UNCHANGED << key, cap_opened, windows_open, elapsed, battery_level,
                    radar_blips, scan_angle, pulse_steps, current_hud_mode,
                    results, gesture, callVars >>

ReadFrame(live) ==
    /\ pc = "read"
    /\ \E r \in (IF frame_count \in live THEN {"True", "False"} ELSE {"False"}) :
          /\ ret' = r
          /\ IF r = "True"
             THEN frame_count' = frame_count + 1 /\ pc' = "update"
             ELSE frame_count' = frame_count /\ pc' = "release"
    /\ UNCHANGED << key, cap_opened, windows_open, elapsed, battery_level,
                    radar_blips, scan_angle, pulse_steps, current_hud_mode,
                    results, gesture, callVars >>

\* Line 625: update_system_metrics, with the clock dt seconds further on.
UpdateMetrics(dts) ==
    /\ pc = "update"
    /\ \E dt \in dts :
          /\ elapsed' = elapsed + dt
          /\ battery_level' = BatteryLevel(elapsed + dt)
    /\ pc' = "hands"
    /\ UNCHANGED << ret, key, cap_opened, windows_open, frame_count,
                    radar_blips, scan_angle, pulse_steps, current_hud_mode,
                    results, gesture, callVars >>

\* Line 628: process_hands on what the landmark source detected.
ProcessHands(detected) ==
    /\ pc = "hands"
    /\ \E h \in detected :
          /\ results' = h
          /\ gesture' = process_hands(h)
          /\ pc' = IF process_hands(h) \in Exceptions THEN "raised"
                   ELSE hud_elements[1]
    /\ UNCHANGED << ret, key, cap_opened, windows_open, frame_count, elapsed,
                    battery_level, radar_blips, scan_angle, pulse_steps,
                    current_hud_mode, callVars >>

\* Lines 631-632: the widget pc names is drawn.  draw_radar_display (lines
\* 267, 273-299) advances the scan line and updates the blips;
\* draw_vital_signs (line 323) advances the pulse; the others only draw.
DrawWidget(rolls, spawns) ==
    /\ IsWidget(pc)
    /\ IF pc = "radar_display"
       THEN \E roll \in rolls, new \in spawns :
               LET u == UpdateBlips(radar_blips, roll, new)
               IN  /\ radar_blips' = u.blips
                   /\ scan_angle' = (scan_angle + ScanStep) % FullCircle
                   /\ pc' = IF u.error = "none" THEN AfterWidget(pc) ELSE "raised"
                   /\ UNCHANGED pulse_steps
       ELSE /\ pulse_steps' = IF pc = "vital_signs" THEN pulse_steps + 1
                              ELSE pulse_steps
            /\ pc' = AfterWidget(pc)
            /\ UNCHANGED << radar_blips, scan_angle >>
    /\ UNCHANGED << ret, key, cap_opened, windows_open, frame_count, elapsed,
                    battery_level, current_hud_mode, results, gesture, callVars >>

\* Lines 634-643: scan lines, FPS text, cv2.imshow.
Present ==
    /\ pc = "present"
    /\ windows_open' = TRUE
    /\ pc' = "waitkey"
    /\ UNCHANGED << ret, key, cap_opened, frame_count, elapsed, battery_level,
                    radar_blips, scan_angle, pulse_steps, current_hud_mode,
                    results, gesture, callVars >>

\* Lines 645-656.
WaitKey(keys) ==
    /\ pc = "waitkey"
    /\ \E k \in keys :
          /\ key' = k
          /\ pc' = IF k = "q" THEN "release" ELSE "read"
          /\ current_hud_mode' = IF k = "m" THEN CycleMode(current_hud_mode)
                                 ELSE current_hud_mode
          /\ radar_blips' = IF k = "r" THEN << >> ELSE radar_blips
    /\ UNCHANGED << ret, cap_opened, windows_open, frame_count, elapsed,
                    battery_level, scan_angle, pulse_steps, results, gesture,
                    callVars >>

\* Lines 658-660.
Release ==
    /\ pc = "release"
    /\ cap_opened' = FALSE
    /\ windows_open' = FALSE
    /\ pc' = "returned"
    /\ UNCHANGED << ret, key, frame_count, elapsed, battery_level, radar_blips,
                    scan_angle, pulse_steps, current_hud_mode, results, gesture,
                    callVars >>

hudVars == << pc, ret, key, cap_opened, windows_open, frame_count, elapsed,
              battery_level, radar_blips, scan_angle, pulse_steps,
              current_hud_mode, results, gesture >>

\* A direct call recognize_gesture(landmarks).
CallRecognize ==
    /\ rg_ret = "unset"
    /\ rg_ret' = recognize_gesture(landmarks)
    /\ UNCHANGED << hudVars, landmarks, bar_args, bar_drawn >>

\* A direct call draw_progress_bar(frame, (x, y), width, height, progress).
CallProgressBar ==
    /\ bar_drawn = NotDrawn
    /\ bar_drawn' = draw_progress_bar(bar_args.x, bar_args.width, bar_args.num)
    /\ UNCHANGED << hudVars, landmarks, rg_ret, bar_args >>

(***************************************************************************)
(* Specifications.                                                         *)
(***************************************************************************)

Init == InitHud /\ NoCall

\* The run loop with every input free, over MaxFrames frames.
Next ==
    \/ ReadFrame(0..(MaxFrames - 1))
    \/ UpdateMetrics({0, 1})
    \/ ProcessHands(DetectedHands)
    \/ DrawWidget(BOOLEAN, SpawnSamples)
    \/ Present
    \/ WaitKey(Keys)
    \/ Release

Spec == Init /\ [][Next]_vars

\* The run loop with no hand in view, a still clock and no blip.  The
\* interpreter keeps executing run until it returns: weak fairness of the loop.
NextQuiet ==
    \/ ReadFrame(0..(MaxQuietFrames - 1))
    \/ UpdateMetrics({0})
    \/ ProcessHands({<< >>})
    \/ DrawWidget({FALSE}, OneSpawn)
    \/ Present
    \/ WaitKey(Keys)
    \/ Release

FairSpec == Init /\ [][NextQuiet]_vars /\ WF_vars(NextQuiet)

\* The run loop over more frames, with no hand in view and a still clock.
NextRadar ==
    \/ ReadFrame((0..(MaxRadarFrames - 1))
                 \cup (MidRunFrames..(MidRunFrames + MaxMidRunFrames - 1)))
    \/ UpdateMetrics({0})
    \/ ProcessHands({<< >>})
    \/ DrawWidget(BOOLEAN, OneSpawn)
    \/ Present
    \/ WaitKey({"q", "r", "other"})
    \/ Release

\* The radar runs start from the constructed object or from the loop head of
\* a run in progress whose contacts are about to expire.
InitRadar == Init \/ (InitMidRun /\ NoCall)

SpecRadar == InitRadar /\ [][NextRadar]_vars

\* The run loop with the clock running fast, no hand in view, no blip.
NextBattery ==
    \/ ReadFrame(0..(MaxBatteryFrames - 1))
    \/ UpdateMetrics({0, 1, 9, 40, 450})
    \/ ProcessHands({<< >>})
    \/ DrawWidget({FALSE}, OneSpawn)
    \/ Present
    \/ WaitKey({"q", "other"})
    \/ Release

SpecBattery == Init /\ [][NextBattery]_vars

\* One call of the classifier on each bounded input.
InitGesture ==
    /\ InitHud
    /\ landmarks \in GestureInputs
    /\ rg_ret = "unset"
    /\ bar_args = [x |-> 0, width |-> 0, num |-> 0]
    /\ bar_drawn = NotDrawn

SpecGesture == InitGesture /\ [][CallRecognize]_vars

\* One call of the progress bar on each bounded input.
InitBar ==
    /\ InitHud
    /\ landmarks = << >>
    /\ rg_ret = "unset"
    /\ bar_args \in BarInputs
    /\ bar_drawn = NotDrawn

SpecBar == InitBar /\ [][CallProgressBar]_vars


(***************************************************************************)
(* Properties of the classifier, checked under SpecGesture.                *)
(***************************************************************************)

GestureLabels ==
    {"fist", "open_palm", "peace", "thumbs_up", "thumbs_down", "pointing",
     "ok", "rock", "unknown", "no_hand"}

\* l is a list of 21 landmarks, all present.
IsHand(l) ==
    /\ Len(l) = LastTipIndex + 1
    /\ \A i \in 1..Len(l) : IsPoint(l[i])

\* The finger whose tip is landmark tip is extended: the tip's y is strictly
\* less than the y of its reference joint ref.
Extended(l, tip, ref) == l[tip + 1].y < l[ref + 1].y

ThumbUp(l) == Extended(l, 4, 3)

IndexUp(l) == Extended(l, 8, 6)

MiddleUp(l) == Extended(l, 12, 10)

RingUp(l) == Extended(l, 16, 14)

PinkyUp(l) == Extended(l, 20, 18)

\* The planar distance between thumb tip and index tip is below 0.05 = 1/20:
\* (dx^2 + dy^2) / Grid^2 < 1 / 400.
PinchClose(l) ==
    LET dx == l[5].x - l[9].x
        dy == l[5].y - l[9].y
    IN  (dx * dx + dy * dy) * 400 < Grid * Grid

\* The label of the first rule that matches, in the order the spec gives.
FirstMatch(l) ==
    IF IndexUp(l) /\ MiddleUp(l) /\ ~RingUp(l) /\ ~PinkyUp(l) THEN "peace"
    ELSE IF ThumbUp(l) /\ ~IndexUp(l) /\ ~MiddleUp(l) /\ ~RingUp(l) /\ ~PinkyUp(l)
    THEN "thumbs_up"
    ELSE IF ~ThumbUp(l) /\ ~IndexUp(l) /\ ~MiddleUp(l) /\ ~RingUp(l) /\ ~PinkyUp(l)
    THEN "thumbs_down"
    ELSE IF ~IndexUp(l) /\ ~MiddleUp(l) /\ ~RingUp(l) /\ ~PinkyUp(l) THEN "fist"
    ELSE IF IndexUp(l) /\ MiddleUp(l) /\ RingUp(l) /\ PinkyUp(l) THEN "open_palm"
    ELSE IF IndexUp(l) /\ ~MiddleUp(l) /\ ~RingUp(l) /\ ~PinkyUp(l) THEN "pointing"
    ELSE IF PinchClose(l) /\ MiddleUp(l) /\ RingUp(l) /\ PinkyUp(l) THEN "ok"
    ELSE IF IndexUp(l) /\ PinkyUp(l) /\ ~MiddleUp(l) /\ ~RingUp(l) THEN "rock"
    ELSE "unknown"

\* The object is as __init__ and the head of run left it.
HudAsConstructed ==
    /\ pc = "read" /\ frame_count = 0 /\ elapsed = 0
    /\ battery_level = BatteryFull /\ radar_blips = << >> /\ scan_angle = 0
    /\ pulse_steps = 0 /\ current_hud_mode = "COMBAT" /\ results = << >>
    /\ gesture = "unset" /\ cap_opened /\ ~windows_open

Returned == rg_ret # "unset"

\* C1: for every list of 21 landmarks recognize_gesture returns the label of
\* the first rule that matches in the order peace, thumbs_up, thumbs_down,
\* fist, open_palm, pointing, ok, rock, else unknown; the result is one of the
\* enumerated labels and the call leaves the object's state as it was.
C1_FirstMatchWins ==
    (Returned /\ IsHand(landmarks)) =>
        /\ rg_ret = FirstMatch(landmarks)
        /\ rg_ret \in GestureLabels
        /\ HudAsConstructed

\* C1 witness: a hand that matches both the open_palm rule and the ok rule
\* has been classified, and the earlier rule won.
C1_Witness ==
    /\ Returned /\ IsHand(landmarks)
    /\ PinchClose(landmarks) /\ IndexUp(landmarks) /\ MiddleUp(landmarks)
    /\ RingUp(landmarks) /\ PinkyUp(landmarks)
    /\ rg_ret = "open_palm"

\* C2: for every malformed landmark input (empty, fewer than 21 points, or
\* with points missing) recognize_gesture returns unknown and raises nothing.
C2_FailsClosed ==
    (Returned /\ ~IsHand(landmarks)) => rg_ret = "unknown"

\* C5 as stated: whenever thumb tip and index tip are closer than 0.05 and
\* middle, ring and pinky are extended, recognize_gesture returns ok.
C5_PinchIsOk ==
    (Returned /\ IsHand(landmarks) /\ PinchClose(landmarks)
       /\ MiddleUp(landmarks) /\ RingUp(landmarks) /\ PinkyUp(landmarks))
    => rg_ret = "ok"

\* C5 amended: whenever thumb tip and index tip are closer than 0.05, middle,
\* ring and pinky are extended and the index finger is not extended,
\* recognize_gesture returns ok.
C5_PinchIsOkUnlessIndexUp ==
    (Returned /\ IsHand(landmarks) /\ PinchClose(landmarks)
       /\ MiddleUp(landmarks) /\ RingUp(landmarks) /\ PinkyUp(landmarks)
       /\ ~IndexUp(landmarks))
    => rg_ret = "ok"

\* C5 witness: a pinch with the index finger not extended, at a distance that
\* is neither zero nor along one axis, has been classified as ok.
C5_Witness ==
    /\ Returned /\ IsHand(landmarks) /\ PinchClose(landmarks)
    /\ ~IndexUp(landmarks)
    /\ landmarks[5].x # landmarks[9].x /\ landmarks[5].y # landmarks[9].y
    /\ rg_ret = "ok"


(***************************************************************************)
(* Properties of the run loop.                                             *)
(***************************************************************************)

\* C3: the contact list never holds more than 8 contacts, whatever frames and
\* radar resets came before; a tick whose spawn roll succeeds raises nothing,
\* leaves at most 8 contacts and, when no contact expires in it, leaves
\* min(count + 1, 8) of them (so n such ticks from empty leave min(n, 8)).
C3_ContactCap ==
    /\ Len(radar_blips) <= 8
    /\ \A new \in SpawnSamples \cup OneSpawn :
          LET u == UpdateBlips(radar_blips, TRUE, new)
          IN  /\ u.error = "none"
              /\ Len(u.blips) <= 8
              /\ (\A i \in 1..Len(radar_blips) : radar_blips[i].lifetime > 1)
                    => Len(u.blips) = Min(Len(radar_blips) + 1, 8)

\* C3 witness: in a run from the constructed object the list is full and its
\* newest contact has lived through a later tick, so a tick ran while 8
\* contacts existed.
C3_Witness ==
    /\ frame_count <= MaxRadarFrames
    /\ Len(radar_blips) = 8
    /\ radar_blips[8].lifetime < LifeMin - 1

\* C4: process_hands yields no_hand when no hand is detected and otherwise
\* the classification of the first detected hand.
C4_FirstHandWins ==
    gesture # "unset" =>
        gesture = IF Len(results) = 0 THEN "no_hand" ELSE FirstMatch(results[1])

\* floor(n / d) for d > 0.
Floor(n, d) == CHOOSE q \in (-Abs(n))..Abs(n) : q * d <= n /\ n < (q + 1) * d

\* C6: battery_level is max(10, 100 - floor(elapsed seconds / 10)) after every
\* telemetry tick (95 at 50 s), stays within 10..100 and never increases.
C6_BatteryDecay ==
    /\ [](battery_level = Max(10, 100 - Floor(elapsed, 10)))
    /\ [](elapsed = 50 => battery_level = 95)
    /\ [](battery_level \in 10..100)
    /\ [][battery_level' <= battery_level]_vars

\* C6 witness: a tick at 50 s left 95, and (C6_WitnessFloor) a tick later than
\* 900 s left the floor value.
C6_Witness == frame_count > 0 /\ elapsed = 50 /\ battery_level = 95

C6_WitnessFloor == frame_count > 0 /\ elapsed > 910 /\ battery_level = 10

\* C7: draw_progress_bar clamps the fraction to [0, 1]: above 1 the fill ends
\* at x + width, below 0 it ends at x, and it never leaves [x, x + width].
C7_FillClamped ==
    bar_drawn # NotDrawn =>
        LET right == bar_drawn.fill[2]
        IN  /\ bar_args.num > ProgressDen => right = bar_args.x + bar_args.width
            /\ bar_args.num < 0 => right = bar_args.x
            /\ bar_drawn.fill[1] = bar_args.x
            /\ bar_args.x <= right /\ right <= bar_args.x + bar_args.width

\* C8: a failed read or the quit key takes the loop to the release of the
\* capture and the windows and nowhere else; from there run releases both,
\* ticks, draws and presents nothing more, returns, and does nothing after.
C8_ShutdownReleases ==
    /\ [][(pc = "read" /\ ret' = "False") => pc' = "release"]_vars
    /\ [][(pc = "waitkey" /\ key' = "q") => pc' = "release"]_vars
    /\ [][pc = "release" =>
            /\ pc' = "returned" /\ ~cap_opened' /\ ~windows_open'
            /\ UNCHANGED << frame_count, elapsed, battery_level, radar_blips,
                            scan_angle, pulse_steps, current_hud_mode >>]_vars
    /\ [][pc # "returned"]_vars
    /\ [](pc = "returned" => ~cap_opened /\ ~windows_open)
    /\ [](ret = "False" => pc \in {"release", "returned"})
    /\ (pc = "release") ~> (pc = "returned")

\* C8 witness: run has returned after a failed read that followed a presented
\* frame; C8_WitnessQuit: it has returned after the quit key.
C8_Witness ==
    pc = "returned" /\ ret = "False" /\ frame_count > 0 /\ key = "other"

C8_WitnessQuit == pc = "returned" /\ ret = "True" /\ key = "q"

\* The mode after m in the order COMBAT, STEALTH, NAVIGATION, SYSTEM, COMBAT.
ModeAfter(m) ==
    CASE m = "COMBAT"     -> "STEALTH"
      [] m = "STEALTH"    -> "NAVIGATION"
      [] m = "NAVIGATION" -> "SYSTEM"
      [] m = "SYSTEM"     -> "COMBAT"

\* C9: current_hud_mode is always one of the four modes; the cycle key moves
\* it to the next one, SYSTEM to COMBAT; four cycles are the identity.
C9_ModeCycles ==
    /\ [](current_hud_mode \in {"COMBAT", "STEALTH", "NAVIGATION", "SYSTEM"})
    /\ [][(pc = "waitkey" /\ key' = "m") =>
             current_hud_mode' = ModeAfter(current_hud_mode)]_vars
    /\ [](CycleMode(CycleMode(CycleMode(CycleMode(current_hud_mode))))
             = current_hud_mode)

\* C9 witness: the cycle key has just brought the mode back round to COMBAT.
C9_Witness ==
    pc = "read" /\ key = "m" /\ current_hud_mode = "COMBAT" /\ frame_count >= 4

\* C10: every contact in the list has angle in 0..359, distance in 20..80,
\* an affiliation of friend, neutral or hostile, and, having been spawned
\* with a lifetime in 50..200 and ticked at least once, a lifetime below 200.
C10_ContactRanges ==
    \A i \in 1..Len(radar_blips) :
        /\ radar_blips[i].angle \in 0..359
        /\ radar_blips[i].distance \in 20..80
        /\ radar_blips[i].type \in {"friend", "neutral", "hostile"}
        /\ radar_blips[i].lifetime \in 1..199


\* C11: a frame for which the classifier reports open_palm advances the HUD
\* mode to the next mode.  Stated of the first frame of a run, whose mode at
\* the start is COMBAT: when it ends with open_palm reported and the cycle key
\* not pressed, the mode is STEALTH.
C11_OpenPalmCycles ==
    (pc = "read" /\ frame_count = 1 /\ gesture = "open_palm" /\ key # "m")
        => current_hud_mode = ModeAfter("COMBAT")


\* The steps of one iteration of the loop after the read, in the order of the
\* amended C12, and the step after the last of them.
FrameSteps ==
    << "update", "hands", "status_panel", "radar_display", "vital_signs",
       "navigation", "weapon_system", "communication", "threat_assessment",
       "mission_objectives", "present" >>

\* The steps of an iteration at which the radar tick of the frame is yet to come.
BeforeRadarTick == {"update", "hands", "status_panel", "radar_display"}

\* The steps of an iteration at which the pulse of the frame is yet to advance.
BeforePulseTick == BeforeRadarTick \cup {"vital_signs"}

\* The radar ticks and the pulse advances of the run so far.
RadarTicks == IF pc \in BeforeRadarTick THEN frame_count - 1 ELSE frame_count
PulseTicks == IF pc \in BeforePulseTick THEN frame_count - 1 ELSE frame_count

Aged(blip) == [blip EXCEPT !.lifetime = @ - 1]
Alive(blip) == blip.lifetime > 0

\* The contacts of blips after one tick: each one tick older, those with no
\* lifetime left taken out, the others in their order.
Survivors(blips) == SelectSeq([k \in 1..Len(blips) |-> Aged(blips[k])], Alive)

\* C13: a radar tick makes every contact of the set exactly one tick older
\* (contacts with identical field values included), takes out every contact
\* whose lifetime is then <= 0 and no other, and raises nothing; a contact
\* spawned in the tick comes last and is one tick older too.  So no contact
\* with lifetime <= 0 is ever in the set between ticks.
C13_TickDecays ==
    /\ [](\A k \in 1..Len(radar_blips) : Alive(radar_blips[k]))
    /\ [][pc = "radar_display" =>
            LET kept == Survivors(radar_blips)
                n == Len(radar_blips')
            IN  /\ pc' # "raised"
                /\ n \in {Len(kept), Len(kept) + 1}
                /\ SubSeq(radar_blips', 1, Len(kept)) = kept
                /\ n = Len(kept) + 1 =>
                      /\ Len(radar_blips) < MaxBlips
                      /\ radar_blips'[n].lifetime \in (LifeMin - 1)..(LifeMax - 1)]_vars

\* The tick of the frame after MidRunFrames: of the 8 contacts of the run in
\* progress the three with lifetime 1, two of them identical, are gone and the
\* other five are one tick older.
C13_Witness ==
    /\ pc = "vital_signs"
    /\ frame_count = MidRunFrames + 1
    /\ Len(radar_blips) = Len(MidRunBlips) - 3
    /\ radar_blips = Survivors(MidRunBlips)
    /\ \E j, k \in 1..Len(radar_blips) : j # k /\ radar_blips[j] = radar_blips[k]


\* A closed fist: 21 landmarks with none of index, middle, ring and pinky
\* extended.
ClosedFist(l) ==
    /\ IsHand(l)
    /\ ~IndexUp(l) /\ ~MiddleUp(l) /\ ~RingUp(l) /\ ~PinkyUp(l)

\* C14: the label fist is produced: there is a list of 21 landmarks with none
\* of index, middle, ring and pinky extended for which recognize_gesture
\* returns fist.  Stated once a call has returned, over every hand of the
\* grid, the one with the thumb tip level with its joint among them.
C14_FistProduced ==
    Returned => \E l \in WellFormedHands :
                    ClosedFist(l) /\ recognize_gesture(l) = "fist"

=============================================================================
